---- MODULE Spec2Model ----
(***************************************************************************)
(* Model of the PSD8 syringe-pump protocol wrapper (src/PSD8v2.py, with    *)
(* src/PSD8.py as the earlier variant of the same class).                  *)
(*                                                                         *)
(* Byte strings are sequences of integers 0..255; Python text strings are  *)
(* sequences of code points.  The serial port is the environment: what it  *)
(* returns from read() is chosen nondeterministically from ReadChunks.     *)
(***************************************************************************)
EXTENDS Integers, Sequences, FiniteSets, TLC

\* ------------------------------------------------------------------------
\* Bounds of the model (not program constants)
\* ------------------------------------------------------------------------
\* device addresses offered to the command API are 0..MaxAddr
MaxAddr == 1
\* a _ready_wait sees at most this many valid not-ready answers
MaxNotReady == 1
\* the reply of one attempt arrives in at most this many non-empty reads
MaxChunks == 2

\* ------------------------------------------------------------------------
\* Program constants
\* ------------------------------------------------------------------------
RetryCount == 10
ReadCount == 10
DefaultSpeed == 7
STX == 2
ETX == 3
PadByte == 255
None == -1

\* ------------------------------------------------------------------------
\* Bit operations on naturals
\* ------------------------------------------------------------------------
RECURSIVE BitXor(_, _)
BitXor(a, b) ==
  IF a = 0 THEN b
  ELSE IF b = 0 THEN a
  ELSE (((a % 2) + (b % 2)) % 2) + 2 * BitXor(a \div 2, b \div 2)

RECURSIVE BitAnd(_, _)
BitAnd(a, b) ==
  IF a = 0 \/ b = 0 THEN 0
  ELSE ((a % 2) * (b % 2)) + 2 * BitAnd(a \div 2, b \div 2)

\* ------------------------------------------------------------------------
\* Text helpers
\* ------------------------------------------------------------------------
\* str(n) for n >= 0: the decimal digits as code points
RECURSIVE Str(_)
Str(n) == IF n < 10 THEN <<48 + n>> ELSE Str(n \div 10) \o <<48 + (n % 10)>>

\* UTF-8 of one code point below 0x800
Utf8(c) == IF c < 128 THEN <<c>> ELSE <<192 + (c \div 64), 128 + (c % 64)>>

\* str.encode()
RECURSIVE Encode(_)
Encode(s) == IF s = <<>> THEN <<>> ELSE Utf8(Head(s)) \o Encode(Tail(s))

\* str.lower() on code points
LowerChar(c) == IF c >= 65 /\ c <= 90 THEN c + 32 ELSE c

Lower(s) == [i \in 1..Len(s) |-> LowerChar(s[i])]

\* s.startswith(p)
StartsWith(s, p) == Len(s) >= Len(p) /\ SubSeq(s, 1, Len(p)) = p

\* bytes.lstrip(b"\xff")
RECURSIVE Lstrip(_)
Lstrip(s) == IF s # <<>> /\ Head(s) = PadByte THEN Lstrip(Tail(s)) ELSE s

\* ------------------------------------------------------------------------
\* PSD8._checksum
\* ------------------------------------------------------------------------
\* mutant: the running XOR masked to seven bits
RECURSIVE ChecksumFromMask7(_, _)
ChecksumFromMask7(res, s) ==
  IF s = <<>> THEN res
  ELSE CHOOSE out \in { ChecksumFromMask7(r, Tail(s)) :
                          r \in {BitAnd(BitXor(res, Head(s)), 127)} } : TRUE

\* the loop from res over the bytes of s: res ^= b, res &= 0xFF.  (r is
\* bound through a singleton set so that each round is evaluated once.)
RECURSIVE ChecksumFrom(_, _)
ChecksumFrom(res, s) ==
  IF s = <<>> THEN res
  ELSE CHOOSE out \in { ChecksumFrom(r, Tail(s)) :
                          r \in {BitAnd(BitXor(res, Head(s)), 255)} } : TRUE

Checksum(s) == ChecksumFrom(0, s)

\* ------------------------------------------------------------------------
\* PSD8._check_packet: the returned dict, or the ValueError it raises
\* ------------------------------------------------------------------------
StatusMask == 208
StatusFixed == 64
ReadyBit == 32
ErrorMask == 15

Rejected(why) == [err |-> why, ready |-> FALSE, errorStatus |-> 0]

\* mutant: _check_packet without its test of the terminator
CheckPacketNoTerminator(p) ==
  IF ~StartsWith(p, <<STX, 48>>)
    THEN Rejected("incomplete")
  ELSE IF Checksum(SubSeq(p, 1, Len(p) - 1)) # p[Len(p)]
    THEN Rejected("checksum")
  ELSE IF BitAnd(p[3], StatusMask) # StatusFixed
    THEN Rejected("status")
  ELSE [err |-> "none",
        ready |-> BitAnd(ReadyBit, p[3]) # 0,
        errorStatus |-> BitAnd(ErrorMask, p[3])]

\* mutant: _check_packet without its checksum test
CheckPacketNoChecksum(p) ==
  IF (~StartsWith(p, <<STX, 48>>)) \/ p[Len(p) - 1] # ETX
    THEN Rejected("incomplete")
  ELSE IF BitAnd(p[3], StatusMask) # StatusFixed
    THEN Rejected("status")
  ELSE [err |-> "none",
        ready |-> BitAnd(ReadyBit, p[3]) # 0,
        errorStatus |-> BitAnd(ErrorMask, p[3])]

CheckPacket(p) ==
  IF (~StartsWith(p, <<STX, 48>>)) \/ p[Len(p) - 1] # ETX
    THEN Rejected("incomplete")
  ELSE IF Checksum(SubSeq(p, 1, Len(p) - 1)) # p[Len(p)]
    THEN Rejected("checksum")
  ELSE IF BitAnd(p[3], StatusMask) # StatusFixed
    THEN Rejected("status")
  ELSE [err |-> "none",
        ready |-> BitAnd(ReadyBit, p[3]) # 0,
        errorStatus |-> BitAnd(ErrorMask, p[3])]

\* ------------------------------------------------------------------------
\* PSD8._send, the pure parts
\* ------------------------------------------------------------------------
\* the outbound packet, built once before the retry loop
\* mutant: the checksum taken before the terminator is appended
BuildPacketSumBeforeEtx(c, a, seq) ==
  LET body == <<STX>> \o Encode(Str(a)) \o Encode(Str(seq)) \o Encode(c)
  IN body \o <<ETX>> \o <<Checksum(body)>>

BuildPacket(c, a, seq) ==
  LET body == <<STX>> \o Encode(Str(a)) \o Encode(Str(seq)) \o Encode(c) \o <<ETX>>
  IN body \o <<Checksum(body)>>

\* mutant: the read loop tests read_count >= 0
LoopCondOneMore(ip, rc) ==
  IF Len(ip) = 0 THEN (IF rc >= 0 THEN "continue" ELSE "stop")
  ELSE IF Len(ip) = 1 THEN "IndexError"
  ELSE IF ip[Len(ip) - 1] # ETX THEN (IF rc >= 0 THEN "continue" ELSE "stop")
  ELSE "stop"

\* the condition of the read loop: whether to poll again, to stop, or the
\* IndexError of in_packet[-2] on a one-byte buffer
LoopCond(ip, rc) ==
  IF Len(ip) = 0 THEN (IF rc > 0 THEN "continue" ELSE "stop")
  ELSE IF Len(ip) = 1 THEN "IndexError"
  ELSE IF ip[Len(ip) - 1] # ETX THEN (IF rc > 0 THEN "continue" ELSE "stop")
  ELSE "stop"

\* mutant: no wrap
NextSequenceNoWrap(s) == s + 1

\* mutant: wraps one step early
NextSequenceEarlyWrap(s) == IF s >= 6 THEN 1 ELSE s + 1

\* the next sequence number after a successful transaction
NextSequence(s) == IF s >= 7 THEN 1 ELSE s + 1

\* mutant: the sequence number advances on a failed attempt too
AfterAttemptAlways(ok, s) == NextSequence(s)

\* self.sequence after one attempt, validated or not
AfterAttempt(ok, s) == IF ok THEN NextSequence(s) ELSE s

\* ------------------------------------------------------------------------
\* The device and the serial line (environment)
\* ------------------------------------------------------------------------
\* a well-formed reply frame with the given status byte and payload
DeviceFrame(status, payload) ==
  LET body == <<STX, 48, status>> \o payload \o <<ETX>>
  IN body \o <<Checksum(body)>>

\* the device's view of a frame it sent whole and intact: a status reply
\* whose ready bit is clear
DeviceBusy(p) ==
  /\ Len(p) >= 5
  /\ p = DeviceFrame(p[3], SubSeq(p, 4, Len(p) - 2))
  /\ (p[3] \div 64) % 2 = 1 /\ (p[3] \div 128) % 2 = 0 /\ (p[3] \div 16) % 2 = 0
  /\ (p[3] \div 32) % 2 = 0

\* status bytes the device may send: ready, busy, ready with error code 2,
\* and one without the fixed bit 6
StatusReady == StatusFixed + ReadyBit
StatusBusy == StatusFixed
StatusReadyErr == StatusFixed + ReadyBit + 2
StatusBad == ReadyBit

\* what one read(100) may return on a line that delivers replies whole
FrameChunks ==
  { <<>>,
    <<PadByte>>,
    DeviceFrame(StatusReady, <<>>),
    DeviceFrame(StatusBusy, <<>>),
    DeviceFrame(StatusReadyErr, <<>>),
    <<STX, 48, StatusReady, ETX, 0>> }

\* what one read(100) may return on a line that also splits, pads and
\* garbles replies
ReadChunks ==
  FrameChunks \cup
  { <<STX, 48>>,
    SubSeq(DeviceFrame(StatusReady, <<>>), 3, 5),
    DeviceFrame(StatusBad, <<>>),
    <<PadByte>> \o DeviceFrame(StatusReady, <<>>),
    <<STX, 49, StatusReady, ETX, 80>>,
    DeviceFrame(StatusReady, <<ETX>>) }

\* ------------------------------------------------------------------------
\* Inputs of the command API
\* ------------------------------------------------------------------------
Addresses == 0..MaxAddr
Positions == {1500, 3001}
Steps == {10, -1}
ValvePositions == { <<105, 110, 112, 117, 116>>,
                    <<79, 117, 116, 112, 117, 116>>,
                    <<48>> }
Speeds == {None, 10, 41}
AuxValues == {9}
MixVols == {10, 3001}
MixCounts == {0, 1}
MixSpeeds == {10, 41}

\* command strings
CmdQ == <<81>>
CmdHome == <<89, 82>>
CmdAbs(n) == <<65>> \o Str(n) \o <<82>>
CmdDispense(n) == <<68>> \o Str(n) \o <<82>>
CmdPickup(n) == <<80>> \o Str(n) \o <<82>>
CmdValveIn == <<73, 82>>
CmdValveOut == <<79, 82>>
CmdSpeed(n) == <<83>> \o Str(n) \o <<82>>
CmdAux(n) == <<74>> \o Str(BitAnd(n, 7)) \o <<82>>

\* the default of _send's address parameter
DefaultAddress == 1

\* ------------------------------------------------------------------------
\* State
\* ------------------------------------------------------------------------
VARIABLES
  sequence,     \* self.sequence
  speed,        \* self.speed (None until the first set_speed succeeds)
  life,         \* "constructing" (inside __init__), "ready", or "failed"
  fn,           \* the command-API method being executed, "none" when idle
  fnpc,         \* its position: "none", "wait", "waited", "send"
  fnAddress,    \* its address argument
  fnArg,        \* its numeric argument (position, steps, speed, aux_val)
  fnPos,        \* set_valve's position string
  rw,           \* TRUE while _ready_wait is on the call stack
  spc,          \* position of _send: "idle", "write", "read", "returned", "raised"
  cmd,          \* _send's cmd
  address,      \* _send's address
  packet,       \* _send's packet
  retry_count,  \* _send's retry_count
  repeat,       \* _send's repeat
  in_packet,    \* _send's in_packet (and its return value)
  read_count,   \* _send's read_count
  wire,         \* the frame last written to the port by the current _send
  outcome,      \* how the last _send ended: "none", "returned", "RetryLimit", "IndexError"
  checked,      \* what _check_packet gave for the last candidate frame
  result,       \* how the last command-API call ended
  nOk,          \* number of successful transactions so far, modulo 7
  seqAtEntry,   \* self.sequence when the current _send was entered
  qcount,       \* 'Q' transactions started by the current _ready_wait
  nNotReady,    \* valid not-ready answers the device gave the current _ready_wait
  qFailed,      \* a 'Q' transaction of the current call hit the retry limit
  nCmdWrites,   \* command frames (not 'Q') written by the current API call
  nChunks,      \* non-empty reads of the current attempt
  nWrites,      \* frames written by the current (or last) _send
  mix,          \* the frame of mix while it is on the call stack
  frame,        \* _check_packet on its own: the frame drawn
  cand,         \* the bytes handed to _check_packet
  verdict,      \* what _check_packet gave for cand
  op,           \* what was done to frame to get cand
  th,           \* two callers of _send on one instance: their frames of _send
  serialized,   \* whether the two callers take turns
  seq0          \* self.sequence before the two callers start

vars == <<sequence, speed, life, fn, fnpc, fnAddress, fnArg, fnPos, rw, spc,
          cmd, address, packet, retry_count, repeat, in_packet, read_count,
          wire, outcome, checked, result, nOk, seqAtEntry, qcount, nNotReady,
          qFailed, nCmdWrites, nChunks, nWrites, mix, frame, cand, verdict,
          op, th, serialized, seq0>>

objVars == <<sequence, speed, life>>
fnVars == <<fn, fnpc, fnAddress, fnArg, fnPos>>
sendVars == <<spc, cmd, address, packet, retry_count, repeat, in_packet,
              read_count, wire, outcome, checked, seqAtEntry, nChunks, nWrites>>
waitVars == <<rw, qcount, nNotReady, qFailed>>
checkVars == <<frame, cand, verdict, op>>
threadVars == <<th, serialized, seq0>>

NoCheck == Rejected("none yet")

\* no method of the single caller is running
Quiet ==
  /\ fn = "none" /\ fnpc = "none" /\ fnAddress = 0 /\ fnArg = 0 /\ fnPos = <<>>
  /\ rw = FALSE
  /\ spc = "idle" /\ cmd = <<>> /\ address = 0 /\ packet = <<>>
  /\ retry_count = 0 /\ repeat = 0 /\ in_packet = <<>> /\ read_count = 0
  /\ wire = <<>> /\ outcome = "none" /\ checked = NoCheck
  /\ result = "none"
  /\ nOk = 0 /\ qcount = 0 /\ nNotReady = 0 /\ nCmdWrites = 0
  /\ qFailed = FALSE
  /\ nChunks = 0 /\ nWrites = 0

\* the state inside __init__ after line 45, about to call set_speed
ObjInit ==
  /\ sequence = 1
  /\ speed = None
  /\ life = "constructing"
  /\ seqAtEntry = 1
  /\ Quiet

\* mix is not on the call stack
NoMix == [pc |-> "none", vol |-> 0, n |-> 0, speed |-> 0, address |-> 0,
          old_speed |-> 0]

\* nothing drawn for _check_packet on its own
CheckIdle == frame = <<>> /\ cand = <<>> /\ verdict = NoCheck /\ op = "none"

\* no second caller
ThreadsIdle == th = <<>> /\ serialized = TRUE /\ seq0 = 0

Init == ObjInit /\ mix = NoMix /\ CheckIdle /\ ThreadsIdle

\* ------------------------------------------------------------------------
\* _send
\* ------------------------------------------------------------------------
\* entry of _send(c, a): lines 64-78
SendEntry(c, a) ==
  /\ spc' = "write"
  /\ cmd' = c
  /\ address' = a
  /\ retry_count' = RetryCount
  /\ repeat' = 0
  /\ packet' = BuildPacket(c, a, sequence)
  /\ in_packet' = <<>>
  /\ read_count' = 0
  /\ wire' = <<>>
  /\ outcome' = "none"
  /\ checked' = NoCheck
  /\ seqAtEntry' = sequence
  /\ nChunks' = 0
  /\ nWrites' = 0

\* _send ends (return of line 102, or an exception leaving it): its frame
\* is popped, and only the value it returned, if any, remains
Leave(ret) ==
  /\ cmd' = <<>> /\ address' = 0 /\ packet' = <<>>
  /\ retry_count' = 0 /\ repeat' = 0 /\ read_count' = 0
  /\ nChunks' = 0
  /\ in_packet' = ret

\* the caller has consumed what _send returned or raised
SendExit ==
  /\ spc' = "idle"
  /\ in_packet' = <<>>
  /\ UNCHANGED <<cmd, address, packet, retry_count, repeat, read_count, nChunks,
                 wire, outcome, checked, seqAtEntry, nWrites>>

\* lines 81-86 of one attempt: reset the input buffer, write the packet,
\* start the read loop with an empty in_packet and read_count = 10
Transmit ==
  /\ wire' = packet
  /\ in_packet' = <<>>
  /\ read_count' = ReadCount
  /\ nChunks' = 0
  /\ nWrites' = nWrites + 1
  /\ nCmdWrites' = IF rw THEN nCmdWrites ELSE nCmdWrites + 1

\* the first attempt of a _send call
Write ==
  /\ spc = "write"
  /\ retry_count > 0
  /\ Transmit
  /\ spc' = IF LoopCond(<<>>, ReadCount) = "continue" THEN "read" ELSE "write"
  /\ UNCHANGED <<objVars, fnVars, waitVars, cmd, address, packet, retry_count,
                 repeat, outcome, checked, result, nOk, seqAtEntry>>
  /\ UNCHANGED <<mix, checkVars, threadVars>>

\* one poll of the read loop (lines 89-91); when the loop ends, the
\* validation of the candidate frame (lines 94-106) and, after a failed
\* validation, either the next attempt's write or the raise of line 108.
\* outcome names the exit taken.  "RetryLimit" is the raise statement of line
\* 108: in PSD8.py it raises the Exception it builds; in PSD8v2.py building
\* its message (a str plus the bytes packet) raises a TypeError at that same
\* statement, so there too an exception leaves _send at this exit.
\* "IndexError" is in_packet[-2] of the loop test on a one-byte buffer,
\* which is outside the try.
Read(chunk) ==
  /\ spc = "read"
  /\ chunk # <<>> => nChunks < MaxChunks
  /\ LET ip == in_packet \o chunk
         rc == read_count - 1
         c  == LoopCond(ip, rc)
         p  == Lstrip(ip)
         r  == CheckPacket(p)
         ok == r.err = "none"
     IN IF c = "IndexError" THEN
          /\ Leave(<<>>)
          /\ spc' = "raised"
          /\ outcome' = "IndexError"
          /\ UNCHANGED <<sequence, checked, nOk, wire, nWrites, nCmdWrites,
                         nNotReady, qFailed>>
        ELSE IF c = "continue" THEN
          /\ in_packet' = ip
          /\ read_count' = rc
          /\ nChunks' = IF chunk # <<>> THEN nChunks + 1 ELSE nChunks
          /\ UNCHANGED <<sequence, spc, outcome, retry_count, repeat, checked,
                         nOk, wire, nWrites, nCmdWrites, cmd, address, packet,
                         nNotReady, qFailed>>
        ELSE
          /\ ~(rw /\ DeviceBusy(p) /\ nNotReady >= MaxNotReady)
          /\ nNotReady' = IF rw /\ DeviceBusy(p) THEN nNotReady + 1 ELSE nNotReady
          /\ sequence' = AfterAttempt(ok, sequence)
          /\ IF ok THEN
               /\ Leave(p)
               /\ checked' = r
               /\ spc' = "returned"
               /\ outcome' = "returned"
               /\ nOk' = (nOk + 1) % 7
               /\ UNCHANGED <<wire, nWrites, nCmdWrites, qFailed>>
             ELSE IF retry_count - 1 > 0 THEN
               /\ retry_count' = retry_count - 1
               /\ repeat' = 1
               /\ Transmit
               /\ UNCHANGED <<spc, outcome, checked, nOk, cmd, address, packet,
                              qFailed>>
             ELSE
               /\ Leave(<<>>)
               /\ spc' = "raised"
               /\ outcome' = "RetryLimit"
               /\ qFailed' = rw
               /\ UNCHANGED <<checked, nOk, wire, nWrites, nCmdWrites>>
  /\ UNCHANGED <<speed, life, fnVars, rw, qcount, result, seqAtEntry>>
  /\ UNCHANGED <<mix, checkVars, threadVars>>

\* ------------------------------------------------------------------------
\* _ready_wait
\* ------------------------------------------------------------------------
\* the call self._ready_wait(): its first self._send("Q")
EnterReadyWait ==
  /\ rw' = TRUE
  /\ qcount' = 1
  /\ nNotReady' = 0
  /\ qFailed' = FALSE
  /\ SendEntry(CmdQ, DefaultAddress)

\* mutant: _ready_wait takes a reply with an error code as not ready
WaitReadyNoError(p) == CheckPacket(p).ready /\ CheckPacket(p).errorStatus = 0

\* mutant: _ready_wait returns after its first answer, ready or not
WaitReadyAlways(p) == TRUE

\* the loop test of _ready_wait on the packet _send returned
WaitReady(p) == CheckPacket(p).ready

\* not ready: sleep(0.1) and send 'Q' again
ReadyWaitPoll ==
  /\ rw /\ spc = "returned"
  /\ ~WaitReady(in_packet)
  /\ qcount' = qcount + 1
  /\ SendEntry(CmdQ, DefaultAddress)
  /\ UNCHANGED <<objVars, fnVars, rw, nNotReady, qFailed, result, nOk, nCmdWrites>>
  /\ UNCHANGED <<mix, checkVars, threadVars>>

\* ready: _ready_wait returns to the method that called it
ReadyWaitReturn ==
  /\ rw /\ spc = "returned"
  /\ WaitReady(in_packet)
  /\ rw' = FALSE
  /\ fnpc' = "waited"
  /\ SendExit
  /\ UNCHANGED <<objVars, fn, fnAddress, fnArg, fnPos, qcount, nNotReady,
                 qFailed, result, nOk, nCmdWrites>>
  /\ UNCHANGED <<mix, checkVars, threadVars>>

\* ------------------------------------------------------------------------
\* The command API
\* ------------------------------------------------------------------------
CanCall == life = "ready" /\ fn = "none" /\ spc = "idle"

\* a method that passed its argument checks and calls self._ready_wait()
Begin(name, a, arg, pos) ==
  /\ fn' = name
  /\ fnpc' = "wait"
  /\ fnAddress' = a
  /\ fnArg' = arg
  /\ fnPos' = pos
  /\ result' = "none"
  /\ nCmdWrites' = 0
  /\ EnterReadyWait
  /\ UNCHANGED <<objVars, nOk>>

\* a method that raised on its arguments before any transaction
Reject(name, a, arg, err) ==
  /\ fn' = name
  /\ fnpc' = "done"
  /\ fnAddress' = a
  /\ fnArg' = arg
  /\ fnPos' = <<>>
  /\ result' = err
  /\ life' = IF life = "constructing" THEN "failed" ELSE life
  /\ UNCHANGED <<sequence, speed, waitVars, sendVars, nOk, nCmdWrites>>

InRange(n) == n >= 0 /\ n <= 3000

Home(a) == CanCall /\ Begin("home", a, 0, <<>>) /\ UNCHANGED <<mix, checkVars, threadVars>>

AbsPosition(n, a) ==
  /\ CanCall
  /\ IF InRange(n) THEN Begin("abs_position", a, n, <<>>)
     ELSE Reject("abs_position", a, n, "AssertionError")
  /\ UNCHANGED <<mix, checkVars, threadVars>>

\* the body of dispense up to its _ready_wait call
DispenseBody(n, a) ==
  IF InRange(n) THEN Begin("dispense", a, n, <<>>)
  ELSE Reject("dispense", a, n, "AssertionError")

Dispense(n, a) == CanCall /\ DispenseBody(n, a) /\ UNCHANGED <<mix, checkVars, threadVars>>

\* the body of pickup up to its _ready_wait call
PickupBody(n, a) ==
  IF InRange(n) THEN Begin("pickup", a, n, <<>>)
  ELSE Reject("pickup", a, n, "AssertionError")

Pickup(n, a) == CanCall /\ PickupBody(n, a) /\ UNCHANGED <<mix, checkVars, threadVars>>

SetValve(pos, a) == CanCall /\ Begin("set_valve", a, 0, pos) /\ UNCHANGED <<mix, checkVars, threadVars>>

\* the body of set_speed up to its _ready_wait call
SetSpeedBody(sp, a) ==
  LET s1 == IF sp = None THEN DefaultSpeed ELSE sp
  IN IF s1 < 1 \/ s1 > 40 THEN Reject("set_speed", a, s1, "ValueError")
     ELSE Begin("set_speed", a, s1, <<>>)

SetSpeed(sp, a) == CanCall /\ SetSpeedBody(sp, a) /\ UNCHANGED <<mix, checkVars, threadVars>>

\* the last statement of __init__: self.set_speed(self.default_speed)
Construct ==
  /\ life = "constructing" /\ fn = "none"
  /\ SetSpeedBody(DefaultSpeed, DefaultAddress)
  /\ UNCHANGED <<mix, checkVars, threadVars>>

\* set_aux sends without a ready wait and without passing its address
SetAux(v, a) ==
  /\ CanCall
  /\ fn' = "set_aux"
  /\ fnpc' = "send"
  /\ fnAddress' = a
  /\ fnArg' = v
  /\ fnPos' = <<>>
  /\ result' = "none"
  /\ nCmdWrites' = 0
  /\ SendEntry(CmdAux(v), DefaultAddress)
  /\ UNCHANGED <<objVars, waitVars, nOk>>
  /\ UNCHANGED <<mix, checkVars, threadVars>>

\* set_valve's choice after position.lower()
ValveCmd(pos) ==
  IF StartsWith(Lower(pos), <<105>>) THEN CmdValveIn
  ELSE IF StartsWith(Lower(pos), <<111>>) THEN CmdValveOut
  ELSE <<>>

\* the command string a method formats after its ready wait
CommandOf(name, arg, pos) ==
  CASE name = "home" -> CmdHome
    [] name = "abs_position" -> CmdAbs(arg)
    [] name = "dispense" -> CmdDispense(arg)
    [] name = "pickup" -> CmdPickup(arg)
    [] name = "set_speed" -> CmdSpeed(arg)
    [] name = "set_valve" -> ValveCmd(pos)
    [] OTHER -> <<>>

\* after the ready wait: self._send(<command>, address)
CommandSend ==
  /\ fnpc = "waited"
  /\ CommandOf(fn, fnArg, fnPos) # <<>>
  /\ fnpc' = "send"
  /\ SendEntry(CommandOf(fn, fnArg, fnPos), fnAddress)
  /\ qcount' = 0
  /\ nNotReady' = 0
  /\ UNCHANGED <<objVars, fn, fnAddress, fnArg, fnPos, rw, qFailed, result, nOk,
                 nCmdWrites>>
  /\ UNCHANGED <<mix, checkVars, threadVars>>

\* a command-API method ends and its caller has the outcome
EndCall(res) ==
  /\ fnpc' = "done"
  /\ result' = res
  /\ UNCHANGED <<fn, fnAddress, fnArg, fnPos>>

\* the caller moves on: nothing of the finished call remains but the
\* object's fields
Release ==
  /\ fnpc = "done"
  /\ mix.pc \in {"none", "done"}
  /\ fn' = "none" /\ fnpc' = "none" /\ fnAddress' = 0 /\ fnArg' = 0 /\ fnPos' = <<>>
  /\ cmd' = <<>> /\ address' = 0 /\ packet' = <<>>
  /\ retry_count' = 0 /\ repeat' = 0 /\ in_packet' = <<>> /\ read_count' = 0
  /\ wire' = <<>> /\ outcome' = "none" /\ checked' = NoCheck
  /\ result' = "none"
  /\ seqAtEntry' = sequence /\ qcount' = 0 /\ nNotReady' = 0 /\ nCmdWrites' = 0
  /\ qFailed' = FALSE
  /\ nChunks' = 0 /\ nWrites' = 0
  /\ mix' = NoMix
  /\ UNCHANGED <<objVars, rw, spc, nOk, checkVars, threadVars>>

\* a ready wait that no command follows: set_valve with a position that
\* starts with neither "i" nor "o", and the bare self._ready_wait() of mix
ValveNoCommand ==
  /\ fnpc = "waited"
  /\ CommandOf(fn, fnArg, fnPos) = <<>>
  /\ EndCall("ok")
  /\ UNCHANGED <<objVars, waitVars, sendVars, nOk, nCmdWrites>>
  /\ UNCHANGED <<mix, checkVars, threadVars>>

\* the command's _send returned: the method finishes
FnReturn ==
  /\ fnpc = "send" /\ spc = "returned"
  /\ speed' = IF fn = "set_speed" THEN fnArg ELSE speed
  /\ life' = "ready"
  /\ EndCall("ok")
  /\ SendExit
  /\ UNCHANGED <<sequence, waitVars, nOk, nCmdWrites>>
  /\ UNCHANGED <<mix, checkVars, threadVars>>

\* mutant: _ready_wait swallows the exception of its 'Q' transaction and
\* returns as if the device were ready
PropagateAbsorbed ==
  /\ spc = "raised"
  /\ IF rw THEN
       /\ rw' = FALSE
       /\ fnpc' = "waited"
       /\ UNCHANGED <<life, fn, fnAddress, fnArg, fnPos, result>>
     ELSE
       /\ rw' = FALSE
       /\ life' = IF life = "constructing" THEN "failed" ELSE life
       /\ EndCall(outcome)
  /\ SendExit
  /\ UNCHANGED <<sequence, speed, qcount, nNotReady, qFailed, nOk, nCmdWrites>>
  /\ UNCHANGED <<mix, checkVars, threadVars>>

\* an exception raised in _send unwinds _ready_wait and the method
Propagate ==
  /\ spc = "raised"
  /\ rw' = FALSE
  /\ life' = IF life = "constructing" THEN "failed" ELSE life
  /\ EndCall(outcome)
  /\ SendExit
  /\ UNCHANGED <<sequence, speed, qcount, nNotReady, qFailed, nOk, nCmdWrites>>
  /\ UNCHANGED <<mix, checkVars, threadVars>>

\* ------------------------------------------------------------------------
\* mix
\* ------------------------------------------------------------------------
\* mix(vol, n, sp, a): old_speed = self.speed, then self.set_speed(sp, a)
Mix(vol, n, sp, a) ==
  /\ CanCall
  /\ mix' = [pc |-> "set_speed", vol |-> vol, n |-> n, speed |-> sp,
             address |-> a, old_speed |-> speed]
  /\ SetSpeedBody(sp, a)
  /\ UNCHANGED <<checkVars, threadVars>>

\* a call made by mix has returned normally and mix is at position pc
MixAt(pc) == fnpc = "done" /\ result = "ok" /\ mix.pc = pc

\* the loop of mix goes round (again): self.pickup(vol)
MixPickup ==
  /\ (MixAt("set_speed") /\ mix.n > 0) \/ (MixAt("wait2") /\ mix.n > 1)
  /\ mix' = [mix EXCEPT !.pc = "pickup",
                        !.n = IF mix.pc = "wait2" THEN mix.n - 1 ELSE mix.n]
  /\ PickupBody(mix.vol, DefaultAddress)
  /\ UNCHANGED <<checkVars, threadVars>>

\* self._ready_wait() after the pickup
MixWait1 ==
  /\ MixAt("pickup")
  /\ mix' = [mix EXCEPT !.pc = "wait1"]
  /\ Begin("_ready_wait", DefaultAddress, 0, <<>>)
  /\ UNCHANGED <<checkVars, threadVars>>

\* self.dispense(vol)
MixDispense ==
  /\ MixAt("wait1")
  /\ mix' = [mix EXCEPT !.pc = "dispense"]
  /\ DispenseBody(mix.vol, DefaultAddress)
  /\ UNCHANGED <<checkVars, threadVars>>

\* self._ready_wait() after the dispense
MixWait2 ==
  /\ MixAt("dispense")
  /\ mix' = [mix EXCEPT !.pc = "wait2"]
  /\ Begin("_ready_wait", DefaultAddress, 0, <<>>)
  /\ UNCHANGED <<checkVars, threadVars>>

\* mutant: mix ends with self.set_speed(), the default speed
MixRestoreDefault ==
  /\ (MixAt("set_speed") /\ mix.n <= 0) \/ (MixAt("wait2") /\ mix.n <= 1)
  /\ mix' = [mix EXCEPT !.pc = "restore"]
  /\ SetSpeedBody(None, mix.address)
  /\ UNCHANGED <<checkVars, threadVars>>

\* the loop is over: self.set_speed(old_speed, address)
MixRestore ==
  /\ (MixAt("set_speed") /\ mix.n <= 0) \/ (MixAt("wait2") /\ mix.n <= 1)
  /\ mix' = [mix EXCEPT !.pc = "restore"]
  /\ SetSpeedBody(mix.old_speed, mix.address)
  /\ UNCHANGED <<checkVars, threadVars>>

\* mix ends: it returns after the second set_speed, or an exception of one
\* of its calls leaves it
MixEnd ==
  /\ fnpc = "done"
  /\ mix.pc \notin {"none", "done"}
  /\ result = "ok" => mix.pc = "restore"
  /\ mix' = [mix EXCEPT !.pc = "done"]
  /\ UNCHANGED <<objVars, fnVars, waitVars, sendVars, result, nOk, nCmdWrites,
                 checkVars, threadVars>>

\* the steps inside a command-API call
Step(chunks) ==
  \/ Write
  \/ \E chunk \in chunks : Read(chunk)
  \/ ReadyWaitPoll
  \/ ReadyWaitReturn
  \/ CommandSend
  \/ FnReturn
  \/ Propagate
  \/ Release

\* the transaction engine on a noisy line, driven by the constructor, home
\* and set_aux
Next ==
  \/ Construct
  \/ \E a \in Addresses : Home(a)
  \/ \E v \in AuxValues, a \in Addresses : SetAux(v, a)
  \/ Step(ReadChunks)

Spec == Init /\ [][Next]_vars

\* _send is straight-line code around two bounded loops and read(100)
\* returns after the port's timeout at the latest: a started write happens
\* and a started poll gets its (possibly empty) result
SpecFair ==
  /\ Init /\ [][Next]_vars
  /\ WF_vars(Write)
  /\ WF_vars(\E chunk \in ReadChunks : Read(chunk))

\* the whole command API on a line that delivers replies whole
NextApi ==
  \/ Construct
  \/ \E a \in Addresses : Home(a)
  \/ \E n \in Positions, a \in Addresses : AbsPosition(n, a)
  \/ \E n \in Steps, a \in Addresses : Dispense(n, a)
  \/ \E n \in Steps, a \in Addresses : Pickup(n, a)
  \/ \E pos \in ValvePositions, a \in Addresses : SetValve(pos, a)
  \/ \E sp \in Speeds, a \in Addresses : SetSpeed(sp, a)
  \/ \E v \in AuxValues, a \in Addresses : SetAux(v, a)
  \/ ValveNoCommand
  \/ Step(FrameChunks)

SpecApi == Init /\ [][NextApi]_vars

\* mix and the methods it is made of, on a line that delivers replies whole
NextMix ==
  \/ Construct
  \/ \E n \in Positions, a \in Addresses : AbsPosition(n, a)
  \/ \E n \in Steps, a \in Addresses : Dispense(n, a)
  \/ \E n \in Steps, a \in Addresses : Pickup(n, a)
  \/ \E sp \in Speeds, a \in Addresses : SetSpeed(sp, a)
  \/ \E vol \in MixVols, n \in MixCounts, sp \in MixSpeeds, a \in Addresses :
       Mix(vol, n, sp, a)
  \/ MixPickup
  \/ MixWait1
  \/ MixDispense
  \/ MixWait2
  \/ MixRestore
  \/ MixEnd
  \/ ValveNoCommand
  \/ Step(FrameChunks)

SpecMix == Init /\ [][NextMix]_vars

\* ------------------------------------------------------------------------
\* _check_packet on its own: a frame is drawn, handed over whole, with one
\* payload bit flipped, or cut short, and _check_packet is applied
\* ------------------------------------------------------------------------
CheckStatuses == {StatusReady, StatusBusy, StatusReadyErr, StatusBad}

\* payloads, some with 0x03 bytes in them; the last one makes the frame's
\* first five bytes a frame of their own
CheckPayloads(st) ==
  { <<>>, <<49>>, <<49, 50>>, <<ETX>>, <<ETX, 0>>,
    <<ETX, Checksum(<<STX, 48, st, ETX>>)>> }

\* f with a wrong checksum byte
Damaged(f) == [f EXCEPT ![Len(f)] = BitXor(f[Len(f)], 1)]

CheckFrames ==
  LET whole == UNION { { DeviceFrame(st, pl) : pl \in CheckPayloads(st) } :
                       st \in CheckStatuses }
  IN whole \cup { Damaged(f) : f \in whole } \cup { <<STX, 49, StatusReady, ETX, 80>> }

InitCheck ==
  /\ ObjInit /\ mix = NoMix /\ ThreadsIdle
  /\ frame \in CheckFrames
  /\ cand = <<>> /\ verdict = NoCheck /\ op = "none"

\* _check_packet(cand)
Apply(how, c) ==
  /\ op = "none"
  /\ op' = how
  /\ cand' = c
  /\ verdict' = CheckPacket(c)
  /\ UNCHANGED <<objVars, fnVars, waitVars, sendVars, result, nOk, nCmdWrites,
                 mix, frame, threadVars>>

\* byte b with bit k flipped
FlipBit(b, k) == BitXor(b, 2 ^ k)

\* the frame as drawn
CheckWhole == Apply("whole", frame)

\* the frame with bit k of its i-th byte flipped, a byte strictly between
\* the status byte and the terminator
CheckFlipped(i, k) ==
  /\ i \in 4..(Len(frame) - 2)
  /\ Apply("flip", [frame EXCEPT ![i] = FlipBit(frame[i], k)])

\* the first n bytes of the frame, ending before its terminator
CheckPrefix(n) ==
  /\ n \in 0..(Len(frame) - 2)
  /\ Apply("prefix", SubSeq(frame, 1, n))

NextCheck ==
  \/ CheckWhole
  \/ \E i \in 4..6, k \in 0..7 : CheckFlipped(i, k)
  \/ \E n \in 0..6 : CheckPrefix(n)

SpecCheck == InitCheck /\ [][NextCheck]_vars

\* ------------------------------------------------------------------------
\* Two callers of _send on one PSD8 instance.  Each statement of _send is a
\* step; the assignment of line 101 is three: it reads self.sequence for the
\* tuple, reads it again for the index, and stores the element picked.
\* When serialized, a caller enters _send only while no other is inside.
\* ------------------------------------------------------------------------
Callers == {1, 2}

\* the two callers send different commands to device 1
CallerCmd(c) == IF c = 1 THEN CmdQ ELSE CmdHome

\* a caller outside _send
Outside == [pc |-> "idle", packet |-> <<>>, retry_count |-> 0, read_count |-> 0,
            in_packet |-> <<>>, wrote |-> <<>>, plus1 |-> 0, wrap |-> FALSE]

\* a constructed pump after any number of transactions
InitThreads ==
  /\ sequence \in 1..7
  /\ speed = DefaultSpeed
  /\ life = "ready"
  /\ seqAtEntry = sequence
  /\ Quiet /\ mix = NoMix /\ CheckIdle
  /\ th = [c \in Callers |-> Outside]
  /\ serialized \in BOOLEAN
  /\ seq0 = sequence

\* the other variables of a step of a caller
ThreadFrame ==
  UNCHANGED <<speed, life, fnVars, waitVars, sendVars, result, nOk, nCmdWrites,
              mix, checkVars, serialized, seq0>>

\* lines 64-78: the caller builds its packet from self.sequence
TEnter(c) ==
  /\ th[c].pc = "idle"
  /\ serialized => \A d \in Callers \ {c} : th[d].pc \in {"idle", "returned", "raised"}
  /\ th' = [th EXCEPT ![c] = [Outside EXCEPT
               !.pc = "write",
               !.packet = BuildPacket(CallerCmd(c), DefaultAddress, sequence),
               !.retry_count = RetryCount]]
  /\ UNCHANGED sequence
  /\ ThreadFrame

\* lines 80-86: one attempt's write
TWrite(c) ==
  /\ th[c].pc = "write"
  /\ th' = [th EXCEPT ![c].pc = "read",
                      ![c].wrote = th[c].packet,
                      ![c].in_packet = <<>>,
                      ![c].read_count = ReadCount]
  /\ UNCHANGED sequence
  /\ ThreadFrame

\* a caller past the loops of _send: of its locals only the frame it wrote
\* is kept, for the properties
Past(f, pc) == [Outside EXCEPT !.pc = pc, !.wrote = f.wrote]

\* lines 88-106: one poll; at the end of the loop the validation
TRead(c, chunk) ==
  /\ th[c].pc = "read"
  /\ LET ip == th[c].in_packet \o chunk
         rc == th[c].read_count - 1
         lc == LoopCond(ip, rc)
         ok == CheckPacket(Lstrip(ip)).err = "none"
     IN th' = [th EXCEPT ![c] =
                 IF lc = "IndexError" THEN Past(@, "raised")
                 ELSE IF lc = "continue" THEN [@ EXCEPT !.in_packet = ip, !.read_count = rc]
                 ELSE IF ok THEN Past(@, "load")
                 ELSE IF @.retry_count - 1 > 0
                   THEN [@ EXCEPT !.pc = "write", !.retry_count = @ - 1,
                                  !.in_packet = <<>>, !.read_count = 0]
                 ELSE Past(@, "raised")]
  /\ UNCHANGED sequence
  /\ ThreadFrame

\* mutant: the tuple of line 101 built from self.sequence itself
SequencePlusNone(s) == s

\* line 101, the first element of the tuple: self.sequence+1
SequencePlusOne(s) == s + 1

\* line 101: self.sequence is read for the tuple (self.sequence+1, 1)
TLoad(c) ==
  /\ th[c].pc = "load"
  /\ th' = [th EXCEPT ![c].pc = "test", ![c].plus1 = SequencePlusOne(sequence)]
  /\ UNCHANGED sequence
  /\ ThreadFrame

\* line 101: self.sequence is read again for the index [self.sequence>=7]
TTest(c) ==
  /\ th[c].pc = "test"
  /\ th' = [th EXCEPT ![c].pc = "store", ![c].wrap = (sequence >= 7)]
  /\ UNCHANGED sequence
  /\ ThreadFrame

\* line 101: the element picked is stored; line 102: return
TStore(c) ==
  /\ th[c].pc = "store"
  /\ sequence' = IF th[c].wrap THEN 1 ELSE th[c].plus1
  /\ th' = [th EXCEPT ![c].pc = "returned"]
  /\ ThreadFrame

NextThreads ==
  \/ \E c \in Callers : TEnter(c)
  \/ \E c \in Callers : TWrite(c)
  \/ \E c \in Callers, chunk \in FrameChunks : TRead(c, chunk)
  \/ \E c \in Callers : TLoad(c)
  \/ \E c \in Callers : TTest(c)
  \/ \E c \in Callers : TStore(c)

SpecThreads == InitThreads /\ [][NextThreads]_vars

\* ------------------------------------------------------------------------
\* Helpers of the properties: bytes spelled out bit by bit
\* ------------------------------------------------------------------------
RECURSIVE Pow2(_)
Pow2(k) == IF k = 0 THEN 1 ELSE 2 * Pow2(k - 1)

Bit(n, k) == (n \div Pow2(k)) % 2

RECURSIVE OnesAt(_, _, _)
OnesAt(f, k, upto) == IF upto = 0 THEN 0 ELSE Bit(f[upto], k) + OnesAt(f, k, upto - 1)

\* the last byte of f is the XOR of all the bytes before it
LastIsXorOfRest(f) ==
  /\ Len(f) >= 1
  /\ f[Len(f)] \in 0..255
  /\ \A k \in 0..7 : Bit(f[Len(f)], k) = OnesAt(f, k, Len(f) - 1) % 2

IsQFrame(f) == Len(f) = 6 /\ f[4] = 81

\* ------------------------------------------------------------------------
\* Properties
\* ------------------------------------------------------------------------

\* C1: in every reachable state the sequence counter is an integer in 1..7,
\* never 0 and never 8 or more, whatever _send calls succeeded or failed.
C1_SequenceInRange == sequence \in 1..7

\* C1 witness: a _send that needed a retry has returned and wrapped 7 to 1
C1_WrappedAfterRetry ==
  spc = "returned" /\ nWrites > 1 /\ seqAtEntry = 7 /\ sequence = 1

\* C2: every successful _send moves the counter one cyclic step, so the
\* k-th successful transaction (k = 0, 1, ...) is written with sequence
\* number (k mod 7) + 1, starting from 1 at construction.
C2_SequenceCycles ==
  /\ sequence = nOk + 1
  /\ spc = "returned" => sequence = (seqAtEntry % 7) + 1
  /\ wire # <<>> =>
       wire[3] = 48 + (IF outcome = "returned" THEN ((nOk + 6) % 7) + 1 ELSE nOk + 1)

\* C2 witness: the seventh transaction in a row has just succeeded; its
\* frame carried '7' and the counter is back at 1
C2_SeventhDone == spc = "returned" /\ nOk = 0 /\ wire[3] = 55 /\ sequence = 1

\* C3: no failed attempt changes the counter: inside _send it keeps its
\* entry value until the attempt that validates, and a call that fails at
\* the retry limit has made 10 attempts and leaves the counter at its entry
\* value.
C3_FailedAttemptsKeepSequence ==
  /\ spc \in {"write", "read"} => sequence = seqAtEntry
  /\ outcome = "RetryLimit" => (sequence = seqAtEntry /\ nWrites = RetryCount)

\* C3 witness: ten attempts failed and the call has raised at the retry limit
C3_RetryLimitReached ==
  spc = "raised" /\ outcome = "RetryLimit" /\ nWrites = 10 /\ sequence = seqAtEntry

\* C4: within one _send call the first frame has the repeat bit 0x08 clear
\* in its sequence byte and every later frame has it set, with the same
\* sequence value.
C4_RepeatBitOnRetries ==
  spc = "read" =>
    /\ Bit(wire[3], 3) = (IF nWrites > 1 THEN 1 ELSE 0)
    /\ wire[3] - 8 * Bit(wire[3], 3) = 48 + seqAtEntry

\* C5: whatever the port returns, a _send call ends by returning a validated
\* response or by failing at the retry limit; no other error leaves it.
C5_OnlyTwoEndings ==
  spc \in {"returned", "raised"} => outcome \in {"returned", "RetryLimit"}

\* C6: _send returns (and the sequence advances) only on a frame that, after
\* the leading 0xFF bytes are stripped, starts 0x02 '0', has 0x03 second to
\* last, ends with the XOR of all bytes before it, and has a status byte with
\* bit 7 clear, bit 6 set, bit 4 clear; ready is bit 5 and the error code is
\* bits 0..3 of that status byte.
C6_ReturnsOnlyValidFrames ==
  /\ spc = "returned" =>
       /\ Len(in_packet) >= 4
       /\ in_packet[1] = 2
       /\ in_packet[2] = 48
       /\ in_packet[Len(in_packet) - 1] = 3
       /\ LastIsXorOfRest(in_packet)
       /\ Bit(in_packet[3], 7) = 0 /\ Bit(in_packet[3], 6) = 1 /\ Bit(in_packet[3], 4) = 0
       /\ checked.err = "none"
       /\ checked.ready = (Bit(in_packet[3], 5) = 1)
       /\ checked.errorStatus = in_packet[3] % 16
  /\ sequence # seqAtEntry => outcome = "returned"

\* C6 witness: _send has returned a reply that reports ready with error code 2
C6_ReturnedReadyWithError ==
  spc = "returned" /\ checked.ready /\ checked.errorStatus = 2 /\ in_packet[3] = 98

\* C7: _ready_wait returns only after a 'Q' transaction whose validated
\* response has the ready bit set; when the device gave N valid not-ready
\* answers before that, it has performed exactly N + 1 'Q' transactions.
C7_ReadyWaitPollsUntilReady ==
  /\ fnpc = "waited" =>
       /\ outcome = "returned"
       /\ IsQFrame(wire)
       /\ checked.err = "none" /\ checked.ready
       /\ qcount = nNotReady + 1
  /\ (rw /\ spc = "returned") =>
       qcount = nNotReady + (IF checked.ready THEN 1 ELSE 0)

\* C7 witness: one not-ready answer, then ready: two 'Q' transactions
C7_ReadyAfterOneBusy == fnpc = "waited" /\ nNotReady = 1 /\ qcount = 2

\* C8: every 'Q' frame written during the ready wait of a command addressed
\* to device a carries the address digit of a.
C8_ReadyWaitPollsCommandAddress ==
  (rw /\ spc = "read" /\ fnAddress \in 0..9) => wire[2] = 48 + fnAddress

\* C9: once a 'Q' transaction of a ready wait has failed at the retry limit,
\* the call is unwinding or has ended with that error, no further 'Q'
\* transaction was started and no command frame was written.
C9_ReadyWaitFailureIsFatal ==
  qFailed =>
    /\ (spc = "raised" /\ rw) \/ fnpc = "done"
    /\ fnpc = "done" => result = "RetryLimit"
    /\ outcome = "RetryLimit"
    /\ IsQFrame(wire)
    /\ qcount = nNotReady + 1
    /\ nCmdWrites = 0

\* C9 witness: home has ended with the retry-limit error of its second 'Q'
C9_HomeFailedInWait ==
  qFailed /\ fn = "home" /\ fnpc = "done" /\ result = "RetryLimit" /\ qcount = 2

\* C10: the first frame of a _send call is 0x02, the ASCII digit of the
\* address, '0' plus the sequence value, the command bytes, 0x03, and the XOR
\* of all those bytes; "A1500R" to address 1 with sequence 1 is
\* 02 31 31 41 31 35 30 30 52 03 16.
C10_FirstFrameLayout ==
  (spc = "read" /\ nWrites = 1 /\ address \in 0..9) =>
    /\ Len(wire) = Len(cmd) + 5
    /\ wire[1] = 2
    /\ wire[2] = 48 + address
    /\ wire[3] = 48 + sequence
    /\ \A i \in 1..Len(cmd) : wire[3 + i] = cmd[i]
    /\ wire[Len(wire) - 1] = 3
    /\ LastIsXorOfRest(wire)
    /\ (cmd = <<65, 49, 53, 48, 48, 82>> /\ address = 1 /\ sequence = 1) =>
         wire = <<2, 49, 49, 65, 49, 53, 48, 48, 82, 3, 22>>

\* C10 witness: abs_position(1500, 1) writes its command with sequence 1
C10_Abs1500AtSeq1 ==
  /\ spc = "read" /\ nWrites = 1 /\ fn = "abs_position" /\ fnpc = "send"
  /\ address = 1 /\ sequence = 1
  /\ wire = <<2, 49, 49, 65, 49, 53, 48, 48, 82, 3, 22>>

\* C11: a command-API call that raises on an out-of-range numeric argument
\* (AssertionError of abs_position, dispense, pickup, also as the steps of
\* mix; ValueError of set_speed) is rejected before any transaction: when it
\* ends no frame has been written since the call began, and the sequence
\* counter and the stored speed are what they were when the call began.
C11_RejectedBeforeAnyTransaction ==
  [][ (result' # result /\ result' \in {"AssertionError", "ValueError"}
       /\ life' = "ready") =>
        /\ wire' = <<>>
        /\ sequence' = seqAtEntry'
        /\ sequence' = sequence
        /\ speed' = (IF mix.pc = "none" THEN speed ELSE mix.old_speed) ]_vars

\* the frame drawn is one that _check_packet accepts
Accepted == CheckPacket(frame).err = "none"

\* C12: for every frame _check_packet accepts, the frame with any single bit
\* of any one payload byte flipped is rejected, and rejected by the checksum
\* test.
C12_PayloadBitFlipFailsChecksum ==
  (op = "flip" /\ Accepted) => verdict.err = "checksum"

\* C12 witness: bit 7 of the second payload byte of an accepted frame was
\* flipped and the checksum test rejected the result
C12_FlippedSecondPayloadByte ==
  /\ op = "flip" /\ Accepted /\ Len(frame) = 7
  /\ cand[5] = frame[5] + 128
  /\ verdict.err = "checksum"

\* C13: for every frame _check_packet accepts, every proper prefix that ends
\* before the frame's 0x03 terminator, the empty and the one-byte prefix
\* included, also when the payload has 0x03 bytes, is rejected as an
\* incomplete frame.
C13_PrefixIsIncomplete ==
  (op = "prefix" /\ Accepted) => verdict.err = "incomplete"

\* C13 amended: such a prefix is rejected as incomplete unless its own
\* second-to-last byte is a 0x03 (of the payload); then it is taken as a
\* complete frame, and it fails the checksum test or, when its last byte is
\* the XOR of the bytes before it, is accepted.
C13_PrefixIsIncompleteUnlessEtxTail ==
  (op = "prefix" /\ Accepted) =>
    IF Len(cand) >= 2 /\ cand[Len(cand) - 1] = 3
      THEN verdict.err = (IF LastIsXorOfRest(cand) THEN "none" ELSE "checksum")
      ELSE verdict.err = "incomplete"

\* C13 witness: an accepted frame whose payload starts with 0x03 was cut
\* right after that byte and rejected as incomplete
C13_CutInsidePayload ==
  /\ op = "prefix" /\ Accepted /\ Len(frame) = 7 /\ frame[4] = 3 /\ Len(cand) = 4
  /\ verdict.err = "incomplete"

\* C14: every frame that starts 0x02 '0' and has 0x03 second to last, and
\* whose status byte does not have bit 7 clear, bit 6 set and bit 4 clear, is
\* rejected as an invalid status, whether its checksum byte is right or
\* wrong.
C14_BadStatusIsInvalidStatus ==
  (/\ op = "whole"
   /\ Len(cand) >= 4 /\ cand[1] = 2 /\ cand[2] = 48 /\ cand[Len(cand) - 1] = 3
   /\ ~(Bit(cand[3], 7) = 0 /\ Bit(cand[3], 6) = 1 /\ Bit(cand[3], 4) = 0))
  => verdict.err = "status"

\* C15: every _send call ends, whatever the port returns; it writes its
\* frame at most 10 times and polls at most 10 times per attempt; a call that
\* fails at the retry limit has written exactly 10 times; and a call that has
\* returned or raised writes nothing more.
C15_SendTerminatesWithinBudget ==
  /\ [](/\ nWrites <= RetryCount
        /\ spc = "read" => (read_count \in 1..ReadCount /\ retry_count \in 1..RetryCount
                            /\ nWrites = RetryCount + 1 - retry_count)
        /\ outcome = "RetryLimit" => nWrites = RetryCount)
  /\ [][(spc \in {"returned", "raised"}) => (nWrites' \in {nWrites, 0})]_vars
  /\ (spc \in {"write", "read"}) ~> (spc \in {"returned", "raised"})

\* C15 witness: the first two attempts failed validation and the third
\* validated
C15_ThirdAttemptValidated ==
  spc = "returned" /\ nWrites = 3 /\ outcome = "returned"

\* the attempt under way ends with the validation of the bytes ip
HandedToValidation(ip) ==
  IF CheckPacket(Lstrip(ip)).err = "none"
    THEN spc' = "returned" /\ in_packet' = Lstrip(ip)
    ELSE (spc' = "read" /\ nWrites' = nWrites + 1) \/ outcome' = "RetryLimit"

\* C16: every poll of the read loop either ends the loop, when the bytes
\* accumulated have length >= 2 with 0x03 at length-2 or when it was the
\* tenth poll, and then the accumulated bytes go to validation; or else the
\* loop keeps the bytes and polls again.
C16_PollsUntilTerminatorOrTen ==
  [][ spc = "read" =>
        \E chunk \in ReadChunks :
          LET ip == in_packet \o chunk
              polls == ReadCount - read_count + 1
          IN IF (Len(ip) >= 2 /\ ip[Len(ip) - 1] = 3) \/ polls = ReadCount
               THEN HandedToValidation(ip)
               ELSE /\ spc' = "read" /\ nWrites' = nWrites
                    /\ in_packet' = ip /\ read_count' = read_count - 1 ]_vars

\* the sequence digit of the frame caller c wrote
WroteSeq(c) == th[c].wrote[3]

\* two transactions carry the same number although neither has failed
SameNumberTwice ==
  /\ \A c \in Callers : th[c].wrote # <<>> /\ th[c].pc # "raised"
  /\ WroteSeq(1) = WroteSeq(2)

\* two transactions have succeeded and the counter is one step on
LostStep ==
  /\ \A c \in Callers : th[c].pc = "returned"
  /\ sequence = (seq0 % 7) + 1

C18_ErrorCodeIsStillSuccess ==
  /\ (spc = "returned" /\ in_packet[3] % 16 # 0) =>
       /\ outcome = "returned"
       /\ checked.err = "none"
       /\ checked.errorStatus = in_packet[3] % 16
       /\ sequence = (seqAtEntry % 7) + 1
  /\ (rw /\ spc = "returned" /\ Bit(in_packet[3], 5) = 1) =>
       /\ ENABLED ReadyWaitReturn
       /\ ~ENABLED ReadyWaitPoll
  /\ (fnpc = "waited" /\ fn \in {"home", "set_speed"}) => ENABLED CommandSend

\* C18 witness: the ready wait of home has returned on the first reply to its
\* first 'Q', a reply with the ready bit set and error code 2
C18_WaitEndedOnReadyWithError ==
  /\ fn = "home" /\ fnpc = "waited" /\ qcount = 1 /\ nWrites = 1
  /\ checked.ready /\ checked.errorStatus = 2
  /\ sequence = (seqAtEntry % 7) + 1

\* C19: the stored speed changes only in the step in which set_speed's own
\* 'S<speed>R' transaction has returned, and then to that speed; a set_speed
\* that ends with an error (out of range, or its ready wait or its command
\* failed) leaves the stored speed alone; and when mix returns normally the
\* stored speed is the one stored when mix was called.
C19_SpeedStoredAfterSuccess ==
  [][ /\ speed' # speed =>
           /\ fn = "set_speed" /\ fnpc = "send" /\ spc = "returned"
           /\ wire = BuildPacket(CmdSpeed(fnArg), fnAddress, seqAtEntry)
           /\ fnArg \in 1..40
           /\ speed' = fnArg
           /\ result' = "ok"
      /\ (fn' = "set_speed" /\ fnpc' = "done" /\ result' # "ok") => speed' = speed
      /\ (mix.pc # "done" /\ mix'.pc = "done" /\ result' = "ok") =>
           speed' = mix'.old_speed ]_vars

\* C19 witness: mix(10, 1, 10, a) called at speed 7 has returned normally
\* and the stored speed is 7 again
C19_MixRestoredSpeed ==
  /\ mix.pc = "done" /\ result = "ok" /\ mix.n = 1
  /\ mix.speed = 10 /\ mix.old_speed = 7 /\ speed = 7
  /\ fn = "set_speed" /\ wire[4] = 83 /\ wire[5] = 55

====
